---- MODULE Spec2Model ----
(***************************************************************************)
(* A model of the LiDAR visualiser scripts of snehampet/LidarSetUp:        *)
(*   - PolarLidarVisualizer of src/MappingDraftFin.py   (360 buckets),     *)
(*   - PolarLidarVisualizer of src/mappingDraftFinal.py (360 buckets,      *)
(*     zoom buttons),                                                      *)
(*   - LidarVisualizer of src/MappingDraftFin.py        (720 buckets,      *)
(*     zoom buttons, sanity gate, smoothing).                              *)
(*                                                                         *)
(* Text is modelled character by character: a string is a sequence of      *)
(* one-character strings, with two named tokens: "deg" is the degree sign  *)
(* (one code point, two bytes of UTF-8) and "xB0" is a lone byte 0xB0 (the *)
(* Latin-1 degree sign), which is not valid UTF-8.                         *)
(*                                                                         *)
(* A Python float is a record: [kind |-> "nan"], [kind |-> "inf"],         *)
(* [kind |-> "ninf"], or the finite number n/d kept in lowest terms, so    *)
(* that equal numbers are equal records.  Every decimal the model parses   *)
(* has at most a few digits, so rounding to an integer and comparing with  *)
(* 0 and 5000 give on the decimal what they give on the nearest double (a  *)
(* tie x.5 and the integers are doubles).  The zoom range, where products  *)
(* by 0.7 and 1.4 are rounded, is modelled in IEEE-754 binary64 (see       *)
(* FMul).                                                                  *)
(***************************************************************************)
EXTENDS Integers, Sequences, FiniteSets, TLC

(***************************************************************************)
(* Python floats.                                                          *)
(***************************************************************************)
NaN == [kind |-> "nan", n |-> 0, d |-> 1]
PosInf == [kind |-> "inf", n |-> 0, d |-> 1]
NegInf == [kind |-> "ninf", n |-> 0, d |-> 1]
\* Python's None (parse_arduino_data's failure, an unset local).
None == [kind |-> "none", n |-> 0, d |-> 1]

RECURSIVE GCD(_, _)
GCD(a, b) == IF b = 0 THEN a ELSE GCD(b, a % b)

\* The finite number n/d (d > 0), in lowest terms.
Normalize(n, d) ==
    LET g == GCD(IF n < 0 THEN -n ELSE n, d)
    IN  [kind |-> "fin", n |-> n \div g, d |-> d \div g]

Fin(n) == [kind |-> "fin", n |-> n, d |-> 1]

isnan(x) == x.kind = "nan"

\* a <= x for an integer a and a float x (False against NaN, as in IEEE).
IntLeq(a, x) ==
    CASE x.kind = "fin" -> a * x.d <= x.n
      [] x.kind = "inf" -> TRUE
      [] OTHER -> FALSE

\* x <= b for a float x and an integer b.
LeqInt(x, b) ==
    CASE x.kind = "fin" -> x.n <= b * x.d
      [] x.kind = "ninf" -> TRUE
      [] OTHER -> FALSE

\* round() of the finite number n/d: to the nearest integer, a tie to the even one.
round(n, d) ==
    LET q == n \div d
        r == n % d
    IN  IF 2 * r < d THEN q
        ELSE IF 2 * r > d THEN q + 1
        ELSE IF q % 2 = 0 THEN q ELSE q + 1

(***************************************************************************)
(* str methods.                                                            *)
(***************************************************************************)
Whitespace == {" ", "\t", "\r", "\n"}
Digits == {"0", "1", "2", "3", "4", "5", "6", "7", "8", "9"}

DigitVal(c) ==
    CASE c = "0" -> 0 [] c = "1" -> 1 [] c = "2" -> 2 [] c = "3" -> 3
      [] c = "4" -> 4 [] c = "5" -> 5 [] c = "6" -> 6 [] c = "7" -> 7
      [] c = "8" -> 8 [] c = "9" -> 9

RECURSIVE lstrip(_, _)
lstrip(s, chars) ==
    IF s # <<>> /\ Head(s) \in chars THEN lstrip(Tail(s), chars) ELSE s

RECURSIVE rstrip(_, _)
rstrip(s, chars) ==
    IF s # <<>> /\ s[Len(s)] \in chars
    THEN rstrip(SubSeq(s, 1, Len(s) - 1), chars) ELSE s

strip(s) == rstrip(lstrip(s, Whitespace), Whitespace)

\* s.split(sep): the pieces of s between the occurrences of the character sep.
RECURSIVE SplitFrom(_, _, _, _)
SplitFrom(s, sep, i, piece) ==
    IF i > Len(s) THEN <<piece>>
    ELSE IF s[i] = sep THEN <<piece>> \o SplitFrom(s, sep, i + 1, <<>>)
    ELSE SplitFrom(s, sep, i + 1, Append(piece, s[i]))

split(s, sep) == SplitFrom(s, sep, 1, <<>>)

(***************************************************************************)
(* float(s): [ok |-> FALSE] is ValueError.  The grammar modelled: optional *)
(* surrounding whitespace, an optional sign, then nan, inf, infinity, or   *)
(* decimal digits with at most one point and at least one digit.           *)
(* Exponents, underscores and upper case are not modelled; no line the     *)
(* model feeds uses them in a value.                                       *)
(***************************************************************************)
RECURSIVE DigitsValue(_, _)
DigitsValue(s, acc) ==
    IF s = <<>> THEN acc ELSE DigitsValue(Tail(s), 10 * acc + DigitVal(Head(s)))

RECURSIVE Pow10(_)
Pow10(k) == IF k = 0 THEN 1 ELSE 10 * Pow10(k - 1)

IsDigits(s) == \A i \in 1..Len(s) : s[i] \in Digits

ParseDecimal(s, neg) ==
    LET pieces == split(s, ".")
        ip == pieces[1]
        fp == IF Len(pieces) = 2 THEN pieces[2] ELSE <<>>
        mag == DigitsValue(ip \o fp, 0)
    IN  IF Len(pieces) > 2 \/ ~IsDigits(ip) \/ ~IsDigits(fp) \/ Len(ip) + Len(fp) = 0
        THEN [ok |-> FALSE, val |-> None]
        ELSE [ok |-> TRUE,
              val |-> Normalize(IF neg THEN -mag ELSE mag, Pow10(Len(fp)))]

float(s) ==
    LET t == strip(s)
        signed == t # <<>> /\ Head(t) \in {"+", "-"}
        neg == t # <<>> /\ Head(t) = "-"
        body == IF signed THEN Tail(t) ELSE t
    IN  IF body = <<"n", "a", "n">> THEN [ok |-> TRUE, val |-> NaN]
        ELSE IF body \in {<<"i", "n", "f">>, <<"i", "n", "f", "i", "n", "i", "t", "y">>}
        THEN [ok |-> TRUE, val |-> IF neg THEN NegInf ELSE PosInf]
        ELSE ParseDecimal(body, neg)

(***************************************************************************)
(* bytes.decode(): a line holding a byte that is not valid UTF-8 raises    *)
(* UnicodeDecodeError (a ValueError); errors='ignore' drops the byte.      *)
(***************************************************************************)
InvalidBytes == {"xB0", "xFF"}

Decodable(raw) == \A i \in 1..Len(raw) : raw[i] \notin InvalidBytes

decode_ignore(raw) == SelectSeq(raw, LAMBDA c : c \notin InvalidBytes)

(***************************************************************************)
(* The two fields of a line: 'Angle: X deg, Distance: Y mm'.               *)
(* [ok |-> FALSE] is the ValueError or IndexError both parsers catch.      *)
(***************************************************************************)
\* A parser that reads a missing field as 0 instead of failing.
ParseField_DefaultZero(parts, k, suffix) ==
    IF Len(parts) < k THEN [ok |-> TRUE, val |-> Fin(0)]
    ELSE LET kv == split(parts[k], ":")
         IN  IF Len(kv) < 2 THEN [ok |-> TRUE, val |-> Fin(0)]
             ELSE float(rstrip(strip(kv[2]), suffix))

\* float(parts[k].split(':')[1].strip().rstrip(suffix))
ParseField(parts, k, suffix) ==
    IF Len(parts) < k THEN [ok |-> FALSE, val |-> None]
    ELSE LET kv == split(parts[k], ":")
         IN  IF Len(kv) < 2 THEN [ok |-> FALSE, val |-> None]
             ELSE float(rstrip(strip(kv[2]), suffix))

ParseAngle(ln) == ParseField(split(ln, ","), 1, {"deg"})

ParseDistance(ln) == ParseField(split(ln, ","), 2, {" ", "m"})

\* parse_arduino_data: (angle, distance), or (None, None) with no partial result.
parse_arduino_data(ln) ==
    LET a == ParseAngle(ln)
        dd == ParseDistance(ln)
    IN  IF a.ok /\ dd.ok THEN [angle |-> a.val, distance |-> dd.val]
        ELSE [angle |-> None, distance |-> None]

(***************************************************************************)
(* IEEE-754 binary64, for the zoom range.  A natural number is the         *)
(* sequence of its digits in base 2^13, lowest first, without leading      *)
(* zeros; a positive double is [m, e], the number m * 2^e with             *)
(* 2^52 <= m < 2^53.  Products are rounded to nearest, ties to even.       *)
(***************************************************************************)
Limb == 2^13

RECURSIVE IntBitLen(_)
IntBitLen(n) == IF n = 0 THEN 0 ELSE 1 + IntBitLen(n \div 2)

\* The number of bits of a digit.
LimbBits == IntBitLen(Limb - 1)

RECURSIVE BigFromInt(_)
BigFromInt(n) == IF n = 0 THEN <<>> ELSE <<n % Limb>> \o BigFromInt(n \div Limb)

RECURSIVE BigTrim(_)
BigTrim(a) ==
    IF a # <<>> /\ a[Len(a)] = 0 THEN BigTrim(SubSeq(a, 1, Len(a) - 1)) ELSE a

BigBitLen(a) == IF a = <<>> THEN 0 ELSE LimbBits * (Len(a) - 1) + IntBitLen(a[Len(a)])

\* a * k + carry, for k and carry below 2^17.
RECURSIVE BigMulSmall(_, _, _)
BigMulSmall(a, k, carry) ==
    IF a = <<>> THEN BigFromInt(carry)
    ELSE LET t == Head(a) * k + carry
         IN  <<t % Limb>> \o BigMulSmall(Tail(a), k, t \div Limb)

RECURSIVE BigAddC(_, _, _)
BigAddC(a, b, carry) ==
    IF a = <<>> /\ b = <<>> THEN BigFromInt(carry)
    ELSE LET x == IF a = <<>> THEN 0 ELSE Head(a)
             y == IF b = <<>> THEN 0 ELSE Head(b)
             t == x + y + carry
         IN  <<t % Limb>> \o BigAddC(IF a = <<>> THEN a ELSE Tail(a),
                                     IF b = <<>> THEN b ELSE Tail(b), t \div Limb)

BigAdd(a, b) == BigTrim(BigAddC(a, b, 0))

RECURSIVE BigMul(_, _)
BigMul(a, b) ==
    IF b = <<>> THEN <<>>
    ELSE BigAdd(BigTrim(BigMulSmall(a, Head(b), 0)), BigTrim(<<0>> \o BigMul(a, Tail(b))))

\* The quotient and the remainder of a by k, 0 < k < 2^17.
RECURSIVE BigDivSmall(_, _)
BigDivSmall(a, k) ==
    IF a = <<>> THEN [q |-> <<>>, r |-> 0]
    ELSE LET hi == BigDivSmall(Tail(a), k)
             t == hi.r * Limb + Head(a)
         IN  [q |-> BigTrim(<<t \div k>> \o hi.q), r |-> t % k]

\* a * 2^k and floor(a / 2^k).
BigShl(a, k) ==
    BigTrim([i \in 1..(k \div LimbBits) |-> 0] \o BigMulSmall(a, 2^(k % LimbBits), 0))

BigShr(a, k) ==
    LET drop == k \div LimbBits
        r == k % LimbBits
        rest == IF drop >= Len(a) THEN <<>> ELSE SubSeq(a, drop + 1, Len(a))
    IN  BigTrim([i \in 1..Len(rest) |->
                    (rest[i] \div 2^r)
                        + (IF i < Len(rest) THEN (rest[i + 1] % 2^r) * 2^(LimbBits - r) ELSE 0)])

\* Bit k of a (bit 0 is the lowest), and whether some bit below bit k is set.
BigBit(a, k) ==
    IF k \div LimbBits >= Len(a) THEN 0
    ELSE (a[k \div LimbBits + 1] \div 2^(k % LimbBits)) % 2

BigLowBitsSet(a, k) ==
    \/ \E i \in 1..Len(a) : i <= k \div LimbBits /\ a[i] # 0
    \/ k \div LimbBits < Len(a) /\ a[k \div LimbBits + 1] % 2^(k % LimbBits) # 0

\* a < b.
RECURSIVE BigLess(_, _)
BigLess(a, b) ==
    IF Len(a) # Len(b) THEN Len(a) < Len(b)
    ELSE IF a = <<>> THEN FALSE
    ELSE IF a[Len(a)] # b[Len(b)] THEN a[Len(a)] < b[Len(b)]
    ELSE BigLess(SubSeq(a, 1, Len(a) - 1), SubSeq(b, 1, Len(b) - 1))

\* The double nearest to p * 2^e (ties to even), p > 0.
RoundToDouble(p, e) ==
    LET len == BigBitLen(p)
        s == len - 53
    IN  IF s <= 0 THEN [m |-> BigShl(p, -s), e |-> e + s]
        ELSE LET q == BigShr(p, s)
                 up == BigBit(p, s - 1) = 1 /\ (BigLowBitsSet(p, s - 1) \/ BigBit(q, 0) = 1)
                 m0 == IF up THEN BigAdd(q, <<1>>) ELSE q
             IN  IF BigBitLen(m0) > 53 THEN [m |-> BigShr(m0, 1), e |-> e + s + 1]
                 ELSE [m |-> m0, e |-> e + s]

\* The double a literal n/d denotes (0.7 is 7/10): the nearest to the quotient.
\* The quotient is taken to 64 fractional bits and one sticky bit.
FromRatio(n, d) ==
    LET qr == BigDivSmall(BigShl(BigFromInt(n), 64), d)
    IN  RoundToDouble(BigAdd(BigShl(qr.q, 1), IF qr.r # 0 THEN <<1>> ELSE <<>>), -65)

FromInt(n) == FromRatio(n, 1)

\* x * y in double arithmetic, x and y positive.
FMul(x, y) == RoundToDouble(BigMul(x.m, y.m), x.e + y.e)

\* x < y, x and y positive doubles.
FLess(x, y) == x.e < y.e \/ (x.e = y.e /\ BigLess(x.m, y.m))

\* Python's max(a, b) and min(a, b): the first argument unless the second is
\* strictly greater (smaller).
FMax(a, b) == IF FLess(a, b) THEN b ELSE a
FMin(a, b) == IF FLess(b, a) THEN b ELSE a

(***************************************************************************)
(* The three visualiser classes.                                           *)
(***************************************************************************)
PolarVariants == {"PolarFin", "PolarFinal"}
Variants == PolarVariants \cup {"Lidar"}
ZoomVariants == {"PolarFinal", "Lidar"}

buffer_size(v) == IF v = "Lidar" THEN 720 ELSE 360

\* The factor of update_data's index: one bucket per degree, or per half degree.
resolution(v) == IF v = "Lidar" THEN 2 ELSE 1

\* update_interval in ticks of the model's clock (one tick is 50 ms).
update_interval(v) == IF v = "Lidar" THEN 2 ELSE 1

\* A sanity check whose upper bound is strict: distance < 5000.
SanityCheck_StrictUpper(v, distance) ==
    v = "Lidar" => (~isnan(distance) /\ IntLeq(0, distance) /\ LeqInt(distance, 5000)
                        /\ distance # Fin(5000))

\* LidarVisualizer.update_data's sanity check; the other classes have none.
SanityCheck(v, distance) ==
    v = "Lidar" => (~isnan(distance) /\ IntLeq(0, distance) /\ LeqInt(distance, 5000))

\* An index that truncates: int(angle * resolution) % buffer_size.
BucketIndex_Truncating(v, angle) ==
    LET p == angle.n * resolution(v)
        t == IF p >= 0 THEN p \div angle.d ELSE -((-p) \div angle.d)
    IN  t % buffer_size(v)

\* int(round(angle * resolution)) % buffer_size, for a finite angle.
BucketIndex(v, angle) == round(angle.n * resolution(v), angle.d) % buffer_size(v)

\* An update that fills empty buckets only: the first reading of a bucket stays.
update_data_KeepsFirst(v, dists, angle, distance) ==
    IF ~SanityCheck(v, distance) THEN [exc |-> "none", distances |-> dists]
    ELSE IF angle.kind = "nan" THEN [exc |-> "ValueError", distances |-> dists]
    ELSE IF angle.kind \in {"inf", "ninf"} THEN [exc |-> "OverflowError", distances |-> dists]
    ELSE [exc |-> "none",
          distances |-> IF isnan(dists[BucketIndex(v, angle)])
                        THEN [dists EXCEPT ![BucketIndex(v, angle)] = distance]
                        ELSE dists]

\* update_data: the buffer after the call and the exception it raises, if any:
\* int(round(nan)) is a ValueError, int(round(inf)) an OverflowError.
update_data(v, dists, angle, distance) ==
    IF ~SanityCheck(v, distance) THEN [exc |-> "none", distances |-> dists]
    ELSE IF angle.kind = "nan" THEN [exc |-> "ValueError", distances |-> dists]
    ELSE IF angle.kind \in {"inf", "ninf"} THEN [exc |-> "OverflowError", distances |-> dists]
    ELSE [exc |-> "none",
          distances |-> [dists EXCEPT ![BucketIndex(v, angle)] = distance]]

(***************************************************************************)
(* The zoom buttons (PolarLidarVisualizer of mappingDraftFinal.py and      *)
(* LidarVisualizer).                                                       *)
(***************************************************************************)
min_range == FromInt(100)
max_range == FromInt(5000)

\* The range the view starts with and reset_view returns to: 500, and
\* self.default_range = 1000 in LidarVisualizer.
default_range(v) == IF v = "Lidar" THEN FromInt(1000) ELSE FromInt(500)

\* PolarLidarVisualizer of MappingDraftFin.py has no current_range: its
\* radial limit is fixed by set_rlim(0, 500).
NoRange == [m |-> <<>>, e |-> 0]

\* A zoom step without its lower clamp: new_range = self.current_range * 0.7.
zoom_in_range_NoClamp(cr) == FMul(cr, FromRatio(7, 10))

\* new_range = max(self.current_range * 0.7, self.min_range)
zoom_in_range(cr) == FMax(FMul(cr, FromRatio(7, 10)), min_range)

\* new_range = min(self.current_range * 1.4, self.max_range)
zoom_out_range(cr) == FMin(FMul(cr, FromRatio(14, 10)), max_range)

(***************************************************************************)
(* LidarVisualizer.get_colors.                                             *)
(***************************************************************************)
Gray == "#808080"
Red == "#FF0000"
Yellow == "#FFFF00"
Green == "#00FF00"

\* A classifier whose first boundary is strict: elif d < 300.
ColorOf_StrictBoundary(d) ==
    IF isnan(d) THEN Gray
    ELSE IF LeqInt(d, 300) /\ d # Fin(300) THEN Red
    ELSE IF LeqInt(d, 1000) THEN Yellow
    ELSE Green

\* The body of get_colors' loop: the colour appended for the distance d.
ColorOf(d) ==
    IF isnan(d) THEN Gray
    ELSE IF LeqInt(d, 300) THEN Red
    ELSE IF LeqInt(d, 1000) THEN Yellow
    ELSE Green

\* get_colors: one colour per distance, in order.
get_colors(ds) == [i \in 1..Len(ds) |-> ColorOf(ds[i])]

(***************************************************************************)
(* The lines the firmware (or noise on the wire) delivers.                 *)
(***************************************************************************)
AngleLabel == <<"A", "n", "g", "l", "e">>
DistanceLabel == <<"D", "i", "s", "t", "a", "n", "c", "e">>
EndOfLine == <<"\r", "\n">>

Record(a, dv) ==
    AngleLabel \o <<":", " ">> \o a \o <<"deg", ",", " ">>
        \o DistanceLabel \o <<":", " ">> \o dv \o <<" ", "m", "m">> \o EndOfLine

\* Lines every feed of up to MaxFeed lines is built from: two readings of one
\* bucket, one a turn later in the same bucket, one at a negative angle.
CoreLines ==
    { Record(<<"9", "0">>, <<"8", "0", "0">>),
      Record(<<"9", "0">>, <<"1", "5", "0", "0">>),
      Record(<<"4", "5", "0">>, <<"4", "0", "0">>),
      Record(<<"-", "0", ".", "5">>, <<"1", "5", "0">>) }

FirstLine == Record(<<"9", "0">>, <<"8", "0", "0">>)
LastLine == Record(<<"1">>, <<"7", "0", "0">>)

\* Well-formed lines at the edges of the angle and distance ranges.
EdgeLines ==
    { Record(<<"0", ".", "5">>, <<"1", "0", "0">>),
      Record(<<"1", ".", "5">>, <<"1", "0", "0">>),
      Record(<<"0", ".", "2", "5">>, <<"1", "0", "0">>),
      Record(<<"0", ".", "7", "5">>, <<"1", "0", "0">>),
      Record(<<"3", "5", "9", ".", "5">>, <<"1", "0", "0">>),
      Record(<<"3", "5", "9", ".", "7", "5">>, <<"1", "0", "0">>),
      Record(<<"3", "6", "0">>, <<"1", "0", "0">>),
      Record(<<"-", "1">>, <<"1", "0", "0">>),
      Record(<<"-", "3", "6", "1">>, <<"1", "0", "0">>),
      Record(<<"7", "2", "0", ".", "4">>, <<"1", "0", "0">>),
      Record(<<"9", "0">>, <<"0">>),
      Record(<<"9", "0">>, <<"5", "0", "0", "0">>),
      Record(<<"9", "0">>, <<"5", "0", "0", "0", ".", "0", "1">>),
      Record(<<"9", "0">>, <<"-", "1">>),
      Record(<<"9", "0">>, <<"-", "0", ".", "0", "1">>),
      Record(<<"9", "0">>, <<"3", "0", "0", ".", "5">>) }

\* Numeric tokens that are not finite numbers.
NonFiniteLines ==
    { Record(<<"9", "0">>, <<"n", "a", "n">>),
      Record(<<"9", "0">>, <<"i", "n", "f">>),
      Record(<<"9", "0">>, <<"-", "i", "n", "f">>),
      Record(<<"n", "a", "n">>, <<"1", "0", "0">>),
      Record(<<"i", "n", "f">>, <<"1", "0", "0">>),
      Record(<<"n", "a", "n">>, <<"9", "9", "9", "9">>),
      Record(<<"i", "n", "f">>, <<"9", "9", "9", "9">>) }

\* 'Angle: 90deg Distance: 100 mm': the comma is missing.
LineNoComma ==
    AngleLabel \o <<":", " ", "9", "0", "deg", " ">> \o DistanceLabel
        \o <<":", " ", "1", "0", "0", " ", "m", "m">> \o EndOfLine
\* 'Angle 90deg, Distance: 100 mm': the first colon is missing.
LineNoAngleColon ==
    AngleLabel \o <<" ", "9", "0", "deg", ",", " ">> \o DistanceLabel
        \o <<":", " ", "1", "0", "0", " ", "m", "m">> \o EndOfLine
\* 'Angle: 90deg, Distance 100 mm': the second colon is missing.
LineNoDistanceColon ==
    AngleLabel \o <<":", " ", "9", "0", "deg", ",", " ">> \o DistanceLabel
        \o <<" ", "1", "0", "0", " ", "m", "m">> \o EndOfLine
\* 'Angle: 90deg': one field only.
LineOneField == AngleLabel \o <<":", " ", "9", "0", "deg">> \o EndOfLine
\* 'Angle: 9x0deg, Distance: 100 mm' and 'Angle: 90deg, Distance: 1.0.0 mm'.
LineBadAngle == Record(<<"9", "x", "0">>, <<"1", "0", "0">>)
LineBadDistance == Record(<<"9", "0">>, <<"1", ".", "0", ".", "0">>)
\* 'Angle: deg, Distance: 100 mm': the value is empty.
LineEmptyAngle == Record(<<>>, <<"1", "0", "0">>)

MalformedLines ==
    { LineNoComma, LineNoAngleColon, LineNoDistanceColon, LineOneField,
      LineBadAngle, LineBadDistance, LineEmptyAngle, EndOfLine }

\* Lines with bytes that are not UTF-8: a Latin-1 degree sign, a noise byte.
LineLatin1Degree ==
    AngleLabel \o <<":", " ", "9", "0", "xB0", ",", " ">> \o DistanceLabel
        \o <<":", " ", "1", "0", "0", " ", "m", "m">> \o EndOfLine
LineNoiseByte == <<"xFF">> \o Record(<<"9", "0">>, <<"1", "0", "0">>)

UndecodableLines == {LineLatin1Degree, LineNoiseByte}

SpecialLines == EdgeLines \cup NonFiniteLines \cup MalformedLines \cup UndecodableLines

\* The sample scenario: four readings a quarter turn apart.
ScenarioFeed ==
    << Record(<<"0">>, <<"1", "5", "0">>),
       Record(<<"9", "0">>, <<"8", "0", "0">>),
       Record(<<"1", "8", "0">>, <<"1", "5", "0", "0">>),
       Record(<<"2", "7", "0">>, <<"4", "0", "0">>) >>

MaxFeed == 2
MaxTime == 2
MaxZoom == 6
MaxColors == 2
MaxClicks == 2

SeqsUpTo(S, k) == UNION {[1..m -> S] : m \in 0..k}

\* What the transport will deliver, line by line.
Feeds ==
    SeqsUpTo(CoreLines, MaxFeed)
        \cup {<<FirstLine, s, LastLine>> : s \in SpecialLines}
        \cup {ScenarioFeed}

(***************************************************************************)
(* State.                                                                  *)
(***************************************************************************)
VARIABLES
    variant,      \* the class that runs
    feed,         \* the lines the transport has yet to deliver
    log,          \* the lines read so far (history)
    line,         \* process_scan's line: the last line read, decoded and stripped
    call,         \* the (angle, distance) update_data was called with in the last
                  \* iteration, <<>> when it was not called
    distances,    \* self.distances
    now,          \* time.time(), in ticks
    last_update,  \* process_scan's last_update
    redraws,      \* calls of update_visualization so far
    step,         \* the last step taken: "init", "tick", "idle", "read", ...
    pc,           \* "scan": in the loop; "returned": process_scan returned;
                  \* "raised": an exception left process_scan; "exit"
    exc,          \* the exception that ended the loop, "none" while it runs
    serial_open,  \* self.serial is open
    figure_open,  \* the figure is open
    exported,     \* the file save_scan wrote last
    current_range, \* self.current_range, a double
    rlim,         \* the upper radial limit of the axes, set by set_rlim
    ztrace,       \* the zoom buttons clicked so far (history)
    classified,   \* the distances get_colors was called with last
    colors        \* the list get_colors returned last

vars == <<variant, feed, log, line, call, distances, now, last_update, redraws,
          step, pc, exc, serial_open, figure_open, exported, current_range, rlim,
          ztrace, classified, colors>>

zoomvars == <<current_range, rlim, ztrace>>

colorvars == <<classified, colors>>

NoCall == <<>>

\* np.full(self.buffer_size, np.nan)
EmptyPolarBuffer == [i \in 0..(buffer_size("PolarFin") - 1) |-> NaN]
EmptyLidarBuffer == [i \in 0..(buffer_size("Lidar") - 1) |-> NaN]
EmptyBuffer(v) == IF v = "Lidar" THEN EmptyLidarBuffer ELSE EmptyPolarBuffer
NoFile == [written |-> FALSE, header |-> "", rows |-> <<>>]

\* np.degrees(self.angles[i]) with self.angles = np.linspace(0, 2*np.pi, 360):
\* linspace includes its endpoint, so the 360 angles are 360/359 degrees apart.
\* (The exact quotient stands for numpy's double, which is within an ulp of it.)
AngleDegrees(v, i) == Normalize(i * 360, buffer_size(v) - 1)

\* The buckets of valid_mask = ~np.isnan(self.distances).
ValidBuckets(dists) == {i \in DOMAIN dists : ~isnan(dists[i])}

\* The rows save_scan writes: one per bucket that is not NaN, in index order
\* (row k is the bucket with k - 1 valid buckets below it).
ValidRows(v, dists) ==
    LET valid == ValidBuckets(dists)
        kth(k) == CHOOSE i \in valid : Cardinality({j \in valid : j < i}) = k - 1
    IN  [k \in 1..Cardinality(valid) |-> <<AngleDegrees(v, kth(k)), dists[kth(k)]>>]

save_scan(v, dists) ==
    [written |-> TRUE, header |-> "angle,distance", rows |-> ValidRows(v, dists)]

Init ==
    /\ variant \in Variants
    /\ feed \in Feeds
    /\ log = <<>>
    /\ line = <<>>
    /\ call = NoCall
    /\ distances = EmptyBuffer(variant)
    /\ now = 0
    /\ last_update = 0
    /\ redraws = 0
    /\ step = "init"
    /\ pc = "scan"
    /\ exc = "none"
    /\ serial_open = TRUE
    /\ figure_open = TRUE
    /\ exported = NoFile
    /\ current_range = IF variant \in ZoomVariants THEN default_range(variant) ELSE NoRange
    /\ rlim = default_range(variant)
    /\ ztrace = <<>>
    /\ classified = <<>>
    /\ colors = <<>>

\* The clock advances between two iterations.
Tick ==
    /\ UNCHANGED zoomvars
    /\ UNCHANGED colorvars
    /\ pc = "scan"
    /\ now < MaxTime
    /\ now' = now + 1
    /\ step' = "tick"
    /\ UNCHANGED <<variant, feed, log, line, call, distances, last_update, redraws,
                   pc, exc, serial_open, figure_open, exported>>

\* if current_time - last_update >= update_interval: update_visualization();
\* last_update = current_time
PeriodicUpdate ==
    IF now - last_update >= update_interval(variant)
    THEN last_update' = now /\ redraws' = redraws + 1
    ELSE UNCHANGED <<last_update, redraws>>

\* An exception leaves the loop: process_scan catches KeyboardInterrupt only.
Raise(e) == pc' = "raised" /\ exc' = e

\* One iteration of PolarLidarVisualizer.process_scan's loop.
ScanIterationPolar ==
    /\ UNCHANGED zoomvars
    /\ UNCHANGED colorvars
    /\ pc = "scan"
    /\ variant \in PolarVariants
    /\ \/ /\ step' = "idle"
          /\ UNCHANGED <<feed, log, line, call, distances, last_update, redraws, pc, exc>>
       \/ /\ feed # <<>>
          /\ feed' = Tail(feed)
          /\ log' = Append(log, Head(feed))
          /\ step' = "read"
          /\ IF ~Decodable(Head(feed))
             THEN /\ Raise("UnicodeDecodeError")
                  /\ UNCHANGED <<line, call, distances, last_update, redraws>>
             ELSE LET ln == strip(Head(feed))
                      p == parse_arduino_data(ln)
                      u == update_data(variant, distances, p.angle, p.distance)
                  IN  /\ line' = ln
                      /\ IF p.angle = None \/ p.distance = None
                         THEN /\ call' = NoCall
                              /\ UNCHANGED <<distances, last_update, redraws, pc, exc>>
                         ELSE /\ call' = <<p.angle, p.distance>>
                              /\ IF u.exc # "none"
                                 THEN /\ Raise(u.exc)
                                      /\ UNCHANGED <<distances, last_update, redraws>>
                                 ELSE /\ distances' = u.distances
                                      /\ PeriodicUpdate
                                      /\ UNCHANGED <<pc, exc>>
    /\ UNCHANGED <<variant, now, serial_open, figure_open, exported>>

\* One iteration of LidarVisualizer.process_scan's loop.
ScanIterationLidar ==
    /\ UNCHANGED zoomvars
    /\ UNCHANGED colorvars
    /\ pc = "scan"
    /\ variant = "Lidar"
    /\ \/ /\ step' = "idle"
          /\ PeriodicUpdate
          /\ UNCHANGED <<feed, log, line, call, distances, pc, exc>>
       \/ /\ feed # <<>>
          /\ feed' = Tail(feed)
          /\ log' = Append(log, Head(feed))
          /\ step' = "read"
          /\ LET ln == strip(decode_ignore(Head(feed)))
                 a == ParseAngle(ln)
                 dd == ParseDistance(ln)
                 u == update_data(variant, distances, a.val, dd.val)
             IN  /\ line' = ln
                 /\ IF ~a.ok \/ ~dd.ok
                    THEN /\ call' = NoCall
                         /\ PeriodicUpdate
                         /\ UNCHANGED <<distances, pc, exc>>
                    ELSE /\ call' = <<a.val, dd.val>>
                         /\ IF u.exc \in {"none", "ValueError"}
                            THEN /\ distances' = u.distances
                                 /\ PeriodicUpdate
                                 /\ UNCHANGED <<pc, exc>>
                            ELSE /\ Raise(u.exc)
                                 /\ UNCHANGED <<distances, last_update, redraws>>
    /\ UNCHANGED <<variant, now, serial_open, figure_open, exported>>

\* An interrupt handler that closes the figure and forgets the serial port.
KeyboardInterrupt_PortLeftOpen ==
    /\ UNCHANGED zoomvars
    /\ UNCHANGED colorvars
    /\ pc = "scan"
    /\ pc' = "returned"
    /\ exc' = "KeyboardInterrupt"
    /\ figure_open' = FALSE
    /\ step' = "interrupt"
    /\ UNCHANGED <<variant, feed, log, line, call, distances, now, last_update, redraws,
                   exported, serial_open>>

\* except KeyboardInterrupt: self.serial.close(); plt.close()
KeyboardInterrupt ==
    /\ UNCHANGED zoomvars
    /\ UNCHANGED colorvars
    /\ pc = "scan"
    /\ pc' = "returned"
    /\ exc' = "KeyboardInterrupt"
    /\ serial_open' = FALSE
    /\ figure_open' = FALSE
    /\ step' = "interrupt"
    /\ UNCHANGED <<variant, feed, log, line, call, distances, now, last_update, redraws,
                   exported>>

\* main after process_scan: its except clauses print, finally: plt.close('all').
MainFinally ==
    /\ UNCHANGED zoomvars
    /\ UNCHANGED colorvars
    /\ pc \in {"returned", "raised"}
    /\ pc' = "exit"
    /\ figure_open' = FALSE
    /\ step' = "finally"
    /\ UNCHANGED <<variant, feed, log, line, call, distances, now, last_update, redraws,
                   exc, serial_open, exported>>

\* PolarLidarVisualizer.save_scan, on request while the visualiser runs.
SaveScan ==
    /\ UNCHANGED zoomvars
    /\ UNCHANGED colorvars
    /\ pc = "scan"
    /\ variant \in PolarVariants
    /\ exported' = save_scan(variant, distances)
    /\ step' = "save_scan"
    /\ UNCHANGED <<variant, feed, log, line, call, distances, now, last_update, redraws,
                   pc, exc, serial_open, figure_open>>

\* A zoom button that also starts the scan afresh: the buffer is emptied.
ZoomFrame_ClearsBuffer ==
    /\ distances' = EmptyBuffer(variant)
    /\ UNCHANGED <<variant, feed, log, line, call, now, last_update, redraws,
                   pc, exc, serial_open, figure_open, exported, classified, colors>>

\* The frame of a zoom button: the scan loop's state is not touched.
ZoomFrame ==
    UNCHANGED <<variant, feed, log, line, call, distances, now, last_update, redraws,
                pc, exc, serial_open, figure_open, exported, classified, colors>>

\* zoom_in: the Zoom In button's callback.
ZoomIn ==
    /\ pc = "scan"
    /\ variant \in ZoomVariants
    /\ Len(ztrace) < MaxZoom
    /\ ztrace' = Append(ztrace, "zoom_in")
    /\ step' = "zoom_in"
    /\ IF zoom_in_range(current_range) # current_range
       THEN /\ current_range' = zoom_in_range(current_range)
            /\ rlim' = current_range'
       ELSE UNCHANGED <<current_range, rlim>>
    /\ ZoomFrame

\* zoom_out: the Zoom Out button's callback.
ZoomOut ==
    /\ pc = "scan"
    /\ variant \in ZoomVariants
    /\ Len(ztrace) < MaxZoom
    /\ ztrace' = Append(ztrace, "zoom_out")
    /\ step' = "zoom_out"
    /\ IF zoom_out_range(current_range) # current_range
       THEN /\ current_range' = zoom_out_range(current_range)
            /\ rlim' = current_range'
       ELSE UNCHANGED <<current_range, rlim>>
    /\ ZoomFrame

\* A Reset button that redraws and leaves the range as it is.
ResetView_KeepsRange ==
    /\ pc = "scan"
    /\ variant \in ZoomVariants
    /\ Len(ztrace) < MaxZoom
    /\ ztrace' = Append(ztrace, "reset")
    /\ step' = "reset"
    /\ UNCHANGED <<current_range, rlim>>
    /\ ZoomFrame

\* reset_view: the Reset button's callback.
ResetView ==
    /\ pc = "scan"
    /\ variant \in ZoomVariants
    /\ Len(ztrace) < MaxZoom
    /\ ztrace' = Append(ztrace, "reset")
    /\ step' = "reset"
    /\ current_range' = default_range(variant)
    /\ rlim' = current_range'
    /\ ZoomFrame

Next ==
    \/ Tick
    \/ ScanIterationPolar
    \/ ScanIterationLidar
    \/ KeyboardInterrupt
    \/ MainFinally
    \/ SaveScan

Spec == Init /\ [][Next]_vars

\* The zoom buttons alone, on a visualiser that receives no line.
InitZoom == Init /\ feed = <<>>

NextZoom ==
    \/ ZoomIn
    \/ ZoomOut
    \/ ResetView

SpecZoom == InitZoom /\ [][NextZoom]_vars

\* The scan loop with the buttons in use: between two iterations of the loop
\* the GUI runs the callbacks of the buttons clicked (flush_events).
FrameLines ==
    { Record(<<"9", "0">>, <<"1", "5", "0", "0">>),
      Record(<<"9", "0">>, <<"5", "0", "0", "0", ".", "0", "1">>),
      Record(<<"9", "0">>, <<"n", "a", "n">>),
      Record(<<"n", "a", "n">>, <<"1", "0", "0">>),
      LineBadAngle,
      LineLatin1Degree }

InitFrame == Init /\ feed \in {<<FirstLine, s, LastLine>> : s \in FrameLines}

FrameZoomIn == Len(ztrace) < MaxClicks /\ ZoomIn
FrameZoomOut == Len(ztrace) < MaxClicks /\ ZoomOut
FrameResetView == Len(ztrace) < MaxClicks /\ ResetView

NextFrame ==
    \/ Tick
    \/ ScanIterationPolar
    \/ ScanIterationLidar
    \/ KeyboardInterrupt
    \/ MainFinally
    \/ SaveScan
    \/ FrameZoomIn
    \/ FrameZoomOut
    \/ FrameResetView

SpecFrame == InitFrame /\ [][NextFrame]_vars

\* Distances around the two thresholds of get_colors, and values that are
\* not finite numbers.
ProbeDistances ==
    { NaN, PosInf, NegInf, Fin(-1), Fin(5000),
      Normalize(2999999, 10000), Fin(300), Normalize(3000001, 10000),
      Fin(1000), Normalize(10000001, 10000) }

\* colors = self.get_colors(distances_valid), on the distances of a frame.
GetColors ==
    /\ pc = "scan"
    /\ variant = "Lidar"
    /\ \E ds \in SeqsUpTo(ProbeDistances, MaxColors) :
          /\ classified' = ds
          /\ colors' = get_colors(ds)
    /\ step' = "get_colors"
    /\ UNCHANGED zoomvars
    /\ UNCHANGED <<variant, feed, log, line, call, distances, now, last_update, redraws,
                   pc, exc, serial_open, figure_open, exported>>

\* The colour classifier alone, on a visualiser that receives no line.
InitColors == Init /\ variant = "Lidar" /\ feed = <<>>

NextColors == GetColors

SpecColors == InitColors /\ [][NextColors]_vars

(***************************************************************************)
(* Properties.                                                             *)
(***************************************************************************)
\* A loop iteration read a line in this step.
LineRead == feed # <<>> /\ feed' = Tail(feed) /\ log' = Append(log, Head(feed))

\* update_data was called in this step and returned after writing: the
\* distance passes the sanity check where there is one, the angle is a number.
InGate(dv) == dv.kind = "fin" /\ 0 <= dv.n /\ dv.n <= 5000 * dv.d
Accepted(v, dv) == v = "Lidar" => InGate(dv)
IsFinite(a) == a.kind = "fin"

\* r is an integer nearest to f times the finite number a.
Nearest(r, a, f) ==
    LET diff == a.n * f - r * a.d
    IN  2 * (IF diff < 0 THEN -diff ELSE diff) <= a.d

\* C1: an accepted update_data(A, D), for any finite angle A (negative and
\* >= 360 included), stores D at bucket r mod N for an integer r nearest to
\* A * f; the bucket lies in 0..N-1 and every other bucket keeps its value.
C1_Step ==
    (LineRead /\ call' # NoCall /\ IsFinite(call'[1]) /\ Accepted(variant, call'[2]))
        => \E r \in (round(call'[1].n * resolution(variant), call'[1].d) - 1)
                        ..(round(call'[1].n * resolution(variant), call'[1].d) + 1) :
               /\ Nearest(r, call'[1], resolution(variant))
               /\ r % buffer_size(variant) \in 0..(buffer_size(variant) - 1)
               /\ distances' = [distances EXCEPT ![r % buffer_size(variant)] = call'[2]]
               /\ DOMAIN distances' = 0..(buffer_size(variant) - 1)
C1_UpdateStoresAtBucket == [][C1_Step]_vars

\* A negative angle was stored at a bucket while another bucket held a reading.
C1_Witness ==
    /\ step = "read" /\ pc = "scan"
    /\ call # NoCall /\ IsFinite(call[1]) /\ call[1].n < 0
    /\ \E b \in DOMAIN distances :
          /\ b > 300 /\ distances[b] = call[2]
          /\ \E c \in DOMAIN distances : c # b /\ ~isnan(distances[c])

\* What reading line number i of the log made: the bucket it wrote, if any.
Effect(v, raw) ==
    LET ln == strip(IF v = "Lidar" THEN decode_ignore(raw) ELSE raw)
        a == ParseAngle(ln)
        dv == ParseDistance(ln)
        hit == /\ (v = "Lidar" \/ Decodable(raw))
               /\ a.ok /\ dv.ok /\ IsFinite(a.val) /\ Accepted(v, dv.val)
    IN  [hit |-> hit,
         bucket |-> IF hit THEN BucketIndex(v, a.val) ELSE -1,
         dist |-> dv.val]

\* The effects of the lines of a log, in order.
RECURSIVE Effects(_, _)
Effects(v, lg) ==
    IF lg = <<>> THEN <<>> ELSE <<Effect(v, Head(lg))>> \o Effects(v, Tail(lg))

\* The buffer buf with, at every bucket of the set bs, the distance of the
\* last of the effects eff that fell on the bucket.
RECURSIVE WithLast(_, _, _)
WithLast(buf, bs, eff) ==
    IF bs = {} THEN buf
    ELSE LET b == CHOOSE c \in bs : TRUE
             on == {i \in DOMAIN eff : eff[i].hit /\ eff[i].bucket = b}
             last == CHOOSE i \in on : \A j \in on : j <= i
         IN  WithLast([buf EXCEPT ![b] = eff[last].dist], bs \ {b}, eff)

\* C2 (state part): every bucket holds the distance of the last update of the
\* log that fell on it, and NaN when none did.
C2_LastWrite ==
    LET eff == Effects(variant, log)
        hits == {i \in 1..Len(log) : eff[i].hit}
    IN  /\ \A i \in hits : eff[i].bucket \in DOMAIN distances
        /\ distances = WithLast(EmptyBuffer(variant), {eff[i].bucket : i \in hits}, eff)

\* C2 (step part): reading again the line read last, when that one was an
\* update, leaves the buffer as it is.
C2_Idempotent ==
    (LineRead /\ log # <<>> /\ Head(feed) = log[Len(log)]
        /\ Effect(variant, Head(feed)).hit)
        => distances' = distances

\* C2: last-write-wins, and an update applied twice is the update applied once.
C2_LastWriteWins == [](C2_LastWrite) /\ [][C2_Idempotent]_vars

\* Two updates of one bucket with different distances: the second one is kept.
C2_Witness ==
    /\ Len(log) >= 2
    /\ LET e1 == Effect(variant, log[Len(log) - 1])
           e2 == Effect(variant, log[Len(log)])
       IN  /\ e1.hit /\ e2.hit /\ e1.bucket = e2.bucket /\ e1.dist # e2.dist
           /\ distances[e2.bucket] = e2.dist

\* C3 (as claimed): after any loop iteration, with or without data, no redraw
\* is overdue: where update_interval had elapsed, the iteration redrew and
\* reset last_update.
C3_RedrawOnCadence ==
    (pc = "scan" /\ step \in {"idle", "read"}) => now - last_update < update_interval(variant)

\* C4 (as claimed): whatever the transport delivers, only the interrupt makes
\* process_scan leave its loop.
C4_OnlyInterruptEndsLoop == pc # "scan" => exc = "KeyboardInterrupt"

\* C5: reading a malformed line gives no partial result (update_data is not
\* called), changes no bucket and leaves the loop running.
C5_Step ==
    (LineRead /\ Head(feed) \in MalformedLines)
        => /\ call' = NoCall
           /\ distances' = distances
           /\ pc' = "scan" /\ exc' = "none"
C5_MalformedLineDiscarded == [][C5_Step]_vars

\* A malformed line was read between two readings, and both are in the buffer.
C5_Witness ==
    /\ Len(log) = 3 /\ log[2] \in MalformedLines /\ pc = "scan"
    /\ Effect(variant, log[1]).hit /\ Effect(variant, log[3]).hit
    /\ Cardinality(ValidBuckets(distances)) = 2

\* C6: once the interrupt has stopped the loop, the serial port and the
\* figure are closed, from the handler on and at exit.
C6_InterruptClosesPort ==
    (pc # "scan" /\ exc = "KeyboardInterrupt") => (~serial_open /\ ~figure_open)

\* The interrupt arrived after lines were read, and the program has exited.
C6_Witness == pc = "exit" /\ exc = "KeyboardInterrupt" /\ log # <<>> /\ ~serial_open

\* C7: in the 720-bucket class an update whose distance is NaN, infinite or
\* outside [0, 5000] changes no bucket and the loop goes on; the distances 0
\* and 5000 are stored.
C7_Step ==
    (variant = "Lidar" /\ LineRead /\ call' # NoCall)
        => /\ ~InGate(call'[2])
                => (distances' = distances /\ pc' = "scan" /\ exc' = "none")
           /\ (call'[2] \in {Fin(0), Fin(5000)} /\ IsFinite(call'[1]))
                => \E b \in DOMAIN distances :
                      distances' = [distances EXCEPT ![b] = call'[2]]
                          /\ distances'[b] = call'[2]
C7_SanityGate == [][C7_Step]_vars

\* A distance above 5000 was dropped and the buffer kept its earlier reading.
C7_Witness ==
    /\ variant = "Lidar" /\ step = "read" /\ pc = "scan"
    /\ call # NoCall /\ call[2].kind = "fin" /\ call[2].n > 5000 * call[2].d
    /\ Cardinality(ValidBuckets(distances)) = 1

\* C10 (as claimed): the export taken after the four lines of the scenario
\* holds the rows (0,150), (90,800), (180,1500), (270,400), in this order.
C10_ScenarioExport ==
    (step = "save_scan" /\ log = ScenarioFeed)
        => exported.rows = << <<Fin(0), Fin(150)>>, <<Fin(90), Fin(800)>>,
                              <<Fin(180), Fin(1500)>>, <<Fin(270), Fin(400)>> >>

\* The exact value of a double of the range, in units of 2^-60.
Exact(x) == BigShl(x.m, x.e + 60)

\* new is c/10 times old to double precision: |10 new - c old| <= 10 old / 2^52.
CloseTo(new, old, c) ==
    LET n10 == BigShl(BigMulSmall(Exact(new), 10, 0), 52)
        oc == BigShl(BigMulSmall(Exact(old), c, 0), 52)
        tol == BigMulSmall(Exact(old), 10, 0)
    IN  ~BigLess(BigAdd(oc, tol), n10) /\ ~BigLess(BigAdd(n10, tol), oc)

\* c/10 times x is below (above) the integer bound b.
TenthsBelow(x, c, b) ==
    BigLess(BigMulSmall(Exact(x), c, 0), BigMulSmall(Exact(FromInt(b)), 10, 0))
TenthsAbove(x, c, b) ==
    BigLess(BigMulSmall(Exact(FromInt(b)), 10, 0), BigMulSmall(Exact(x), c, 0))

FLeq(x, y) == ~FLess(y, x)

C8_InRange ==
    variant \in ZoomVariants
        => /\ FLeq(FromInt(100), current_range) /\ FLeq(current_range, FromInt(5000))
           /\ rlim = current_range

C8_Step ==
    /\ ztrace' = Append(ztrace, "zoom_in")
          => \/ CloseTo(current_range', current_range, 7)
             \/ current_range' = FromInt(100) /\ TenthsBelow(current_range, 7, 100)
    /\ ztrace' = Append(ztrace, "zoom_out")
          => \/ CloseTo(current_range', current_range, 14)
             \/ current_range' = FromInt(5000) /\ TenthsAbove(current_range, 14, 5000)

\* C8: whatever buttons are clicked, current_range stays in [100, 5000];
\* zoom_in takes it to 0.7 times its value, or to 100 where that is below
\* 100, and zoom_out to 1.4 times its value, or to 5000 where that is above.
C8_ZoomClamped == [](C8_InRange) /\ [][C8_Step]_vars

\* Zooming in from 500 has reached the lower clamp, 0.7 * 120.05 being below 100.
C8_Witness ==
    /\ variant = "PolarFinal" /\ ztrace = <<"zoom_in", "zoom_in", "zoom_in", "zoom_in", "zoom_in">>
    /\ current_range = FromInt(100)

\* a - 1, a > 0.
RECURSIVE BigDec(_)
BigDec(a) ==
    IF Head(a) > 0 THEN BigTrim(<<Head(a) - 1>> \o Tail(a))
    ELSE <<Limb - 1>> \o BigDec(Tail(a))

\* The double next below x, x not a power of two: 244.99999999999997 for 245.
FPred(x) == [m |-> BigDec(x.m), e |-> x.e]

LastIsReset == ztrace # <<>> /\ ztrace[Len(ztrace)] = "reset"

\* C9 (as claimed): reset_view returns current_range to its initial value, and
\* from 500 the clicks zoom_in, zoom_in, reset give 350, then 245, then 500.
C9_ZoomScenarioAsClaimed ==
    /\ LastIsReset => current_range = default_range(variant)
    /\ variant = "PolarFinal" =>
          /\ ztrace = <<"zoom_in">> => current_range = FromInt(350)
          /\ ztrace = <<"zoom_in", "zoom_in">> => current_range = FromInt(245)
          /\ ztrace = <<"zoom_in", "zoom_in", "reset">> => current_range = FromInt(500)

\* C9 (amended): reset_view returns current_range to its initial value, and
\* from 500 the clicks zoom_in, zoom_in, reset give 350.0, then
\* 244.99999999999997 (the double next below 245: 350.0 * 0.7 rounds down),
\* then 500.
C9_ZoomScenario ==
    /\ LastIsReset => current_range = default_range(variant)
    /\ variant = "PolarFinal" =>
          /\ ztrace = <<"zoom_in">> => current_range = FromInt(350)
          /\ ztrace = <<"zoom_in", "zoom_in">> => current_range = FPred(FromInt(245))
          /\ ztrace = <<"zoom_in", "zoom_in", "reset">> => current_range = FromInt(500)

\* The three clicks of the scenario were made, and the range is 500 again.
C9_Witness ==
    /\ variant = "PolarFinal" /\ ztrace = <<"zoom_in", "zoom_in", "reset">>
    /\ current_range = FromInt(500)

\* d <= b, written out on the representation of d.
AtMost(d, b) == d.kind = "ninf" \/ (d.kind = "fin" /\ d.n <= b * d.d)

\* C11: get_colors gives every distance exactly one band, the lower band
\* owning each boundary: NaN is gray, d <= 300 red, 300 < d <= 1000 yellow,
\* d > 1000 green; 300 is red and 300.0001 yellow, 1000 is yellow and
\* 1000.0001 green.
C11_ColorBands ==
    /\ Len(colors) = Len(classified)
    /\ \A i \in 1..Len(classified) :
          LET d == classified[i]
          IN  /\ colors[i] \in {Gray, Red, Yellow, Green}
              /\ colors[i] = Gray <=> d.kind = "nan"
              /\ colors[i] = Red <=> AtMost(d, 300)
              /\ colors[i] = Yellow <=> (d.kind # "nan" /\ ~AtMost(d, 300) /\ AtMost(d, 1000))
              /\ colors[i] = Green <=> (d.kind # "nan" /\ ~AtMost(d, 1000))
              /\ d = Fin(300) => colors[i] = Red
              /\ d = Normalize(3000001, 10000) => colors[i] = Yellow
              /\ d = Fin(1000) => colors[i] = Yellow
              /\ d = Normalize(10000001, 10000) => colors[i] = Green

\* get_colors classified the boundary 300 and the value 300.0001 in one call.
C11_Witness ==
    /\ step = "get_colors"
    /\ classified = <<Fin(300), Normalize(3000001, 10000)>>
    /\ colors = <<Red, Yellow>>

\* C12: in every step (a loop iteration with or without a redraw, a rejected
\* or unparsable line, a click on a zoom button, an export, the interrupt) a
\* bucket changes only if the step is an accepted update whose index is this
\* bucket, and the buffer keeps its N buckets.
C12_Step ==
    /\ DOMAIN distances' = 0..(buffer_size(variant) - 1)
    /\ \A b \in DOMAIN distances :
          distances'[b] # distances[b]
              => /\ LineRead /\ call' # NoCall
                 /\ IsFinite(call'[1]) /\ Accepted(variant, call'[2])
                 /\ distances'[b] = call'[2]
                 /\ \E r \in (b - buffer_size(variant) * 3)..(b + buffer_size(variant) * 3) :
                       /\ r % buffer_size(variant) = b
                       /\ Nearest(r, call'[1], resolution(variant))
C12_BufferFrame == [][C12_Step]_vars

\* Both readings are in the buffer after an unparsable line between them,
\* redraws, two clicks on the buttons and an export.
C12_Witness ==
    /\ variant = "PolarFinal" /\ pc = "scan" /\ feed = <<>>
    /\ Len(log) = 3 /\ log[2] = LineBadAngle
    /\ ztrace = <<"zoom_in", "reset">>
    /\ redraws > 0 /\ exported.written
    /\ distances[90] = Fin(800) /\ distances[1] = Fin(700)
    /\ Cardinality(ValidBuckets(distances)) = 2

\* C13 (as claimed): a bucket that holds a reading holds a reading after
\* every step, whatever line is read: no bucket becomes absent (NaN) again.
C13_Step ==
    \A b \in DOMAIN distances : ~isnan(distances[b]) => ~isnan(distances'[b])
C13_NeverAbsentAgain == [][C13_Step]_vars

====
